---- MODULE Spec2Model ----
(***************************************************************************)
(* Model of the trucking-operations retrieval layer:                       *)
(*   - MCP/operations/cosmos_store.py  (TruckingOperationsStore)           *)
(*   - MCP/operations/app.py           (the three facade tools)            *)
(*   - data_generator/cosmos_store.py  (CosmosStore.upsert_items)          *)
(*   - data_generator/search_index.py  (TruckingSearchIndex)               *)
(*                                                                         *)
(* Python strings that the code compares, formats or passes to a service   *)
(* are sequences of ASCII codes, so that case and quoting are observable.  *)
(* An Optional value is a set with no element (None / property absent) or  *)
(* one element.                                                            *)
(***************************************************************************)
EXTENDS Integers, Sequences, FiniteSets, TLC

\* ------------------------------------------------------------------
\* Bounds of the model
\* ------------------------------------------------------------------

\* number of facade requests that can be in flight at once
MaxReq == 2
\* items the document store returns per page of a query iterator
PageSize == 1
\* cap on the number of credential objects one process constructs
MaxConstruct == 2

\* ------------------------------------------------------------------
\* Strings
\* ------------------------------------------------------------------

None == {}

Some(v) == {v}

\* Python truthiness of an Optional[str]: None and "" are falsy
Falsy(o) == o = None \/ o = Some(<<>>)

\* str.lower() on one ASCII code
LowerChar(c) == IF c >= 65 /\ c <= 90 THEN c + 32 ELSE c

\* str.lower()
Lower(s) == [i \in 1..Len(s) |-> LowerChar(s[i])]

\* lexicographic order on strings (the order the store lists ids in)
RECURSIVE StrLeq(_, _)
StrLeq(a, b) ==
    IF a = <<>> THEN TRUE
    ELSE IF b = <<>> THEN FALSE
    ELSE IF Head(a) < Head(b) THEN TRUE
    ELSE IF Head(a) > Head(b) THEN FALSE
    ELSE StrLeq(Tail(a), Tail(b))

\* "Late Delivery"
LateDelivery == <<76, 97, 116, 101, 32, 68, 101, 108, 105, 118, 101, 114, 121>>
\* "Breakdown"
Breakdown == <<66, 114, 101, 97, 107, 100, 111, 119, 110>>
\* "Weather Delay"
WeatherDelay == <<87, 101, 97, 116, 104, 101, 114, 32, 68, 101, 108, 97, 121>>
\* "HOS Violation"
HOSViolation == <<72, 79, 83, 32, 86, 105, 111, 108, 97, 116, 105, 111, 110>>

\* the closed enumeration of exception types
ExceptionTypes == {LateDelivery, Breakdown, WeatherDelay, HOSViolation}

\* "L-7712", "L-7000", and "L-9999" which no record carries
L7712 == <<76, 45, 55, 55, 49, 50>>
L7000 == <<76, 45, 55, 48, 48, 48>>
L9999 == <<76, 45, 57, 57, 57, 57>>

\* ------------------------------------------------------------------
\* Records of the document store (generate.py)
\* ------------------------------------------------------------------

\* a record as stored: id, type tag, and the optional properties the
\* queries read (load_id is the partition key; trucks carry none)
Item(id, type, load_id, exception_type) ==
    [id |-> id, type |-> type, load_id |-> load_id,
     exception_type |-> exception_type]

\* the anchor load "L-7712"
AnchorLoad == Item(L7712, "load", Some(L7712), None)

\* the anchor exception "EX-7712"
AnchorException ==
    Item(<<69, 88, 45, 55, 55, 49, 50>>, "exception", Some(L7712),
         Some(LateDelivery))

\* a generated dispatch record "DP-L-7000"
DispatchOf7000 ==
    Item(<<68, 80, 45, 76, 45, 55, 48, 48, 48>>, "dispatch", Some(L7000), None)

\* a generated exception "EX-L-7000" of type t
ExceptionOf7000(t) ==
    Item(<<69, 88, 45, 76, 45, 55, 48, 48, 48>>, "exception", Some(L7000),
         Some(t))

\* a generated truck "T-1000": it has no load_id property
Truck1000 == Item(<<84, 45, 49, 48, 48, 48>>, "truck", None, None)

\* the records a producer may upsert in this model
Producible ==
    {AnchorLoad, AnchorException, DispatchOf7000, Truck1000,
     ExceptionOf7000(LateDelivery), ExceptionOf7000(Breakdown)}

\* the items of a set in the store's return order (by id)
RECURSIVE StorageOrder(_)
StorageOrder(S) ==
    IF S = {} THEN <<>>
    ELSE LET first == CHOOSE x \in S : \A y \in S : StrLeq(x.id, y.id)
         IN  <<first>> \o StorageOrder(S \ {first})

\* the set of elements of a sequence
Range(s) == {s[i] : i \in 1..Len(s)}

\* ------------------------------------------------------------------
\* TruckingOperationsStore (MCP/operations/cosmos_store.py)
\* ------------------------------------------------------------------

SettingNames == <<"COSMOS_ENDPOINT", "COSMOS_DATABASE", "COSMOS_CONTAINER">>

\* values a setting may have in the process environment: unset, "", or text
SettingValues == {None, Some(<<>>), Some(<<104>>)}

\* os.getenv(name)
getenv(environ, name) == environ[name]

\* the names of the settings whose value is falsy, in declaration order
MissingSettings(environ) ==
    SelectSeq(SettingNames, LAMBDA n : Falsy(getenv(environ, n)))

\* the store object before its constructor has run
NoStore ==
    [constructed |-> FALSE, endpoint |-> None, db_name |-> None,
     container_name |-> None, client |-> None, container |-> None,
     credential |-> None]

\* mutant of StoreInit: only an unset setting is an error, an empty one is
\* accepted
StoreInitNoneOnly(environ) ==
    LET endpoint == getenv(environ, "COSMOS_ENDPOINT")
        db_name == getenv(environ, "COSMOS_DATABASE")
        container_name == getenv(environ, "COSMOS_CONTAINER")
    IN  IF endpoint = None \/ db_name = None \/ container_name = None
        THEN [raised |-> TRUE,
              missing |-> SelectSeq(SettingNames,
                                    LAMBDA n : getenv(environ, n) = None),
              self |-> NoStore]
        ELSE [raised |-> FALSE, missing |-> <<>>,
              self |-> [constructed |-> TRUE, endpoint |-> endpoint,
                        db_name |-> db_name,
                        container_name |-> container_name,
                        client |-> None, container |-> None,
                        credential |-> None]]

\* TruckingOperationsStore.__init__: raises ValueError naming the missing
\* settings, or yields an object with no client, container or credential
StoreInit(environ) ==
    LET endpoint == getenv(environ, "COSMOS_ENDPOINT")
        db_name == getenv(environ, "COSMOS_DATABASE")
        container_name == getenv(environ, "COSMOS_CONTAINER")
    IN  IF Falsy(endpoint) \/ Falsy(db_name) \/ Falsy(container_name)
        THEN [raised |-> TRUE, missing |-> MissingSettings(environ),
              self |-> NoStore]
        ELSE [raised |-> FALSE, missing |-> <<>>,
              self |-> [constructed |-> TRUE, endpoint |-> endpoint,
                        db_name |-> db_name,
                        container_name |-> container_name,
                        client |-> None, container |-> None,
                        credential |-> None]]

\* what constructing the connection objects can do
EnsureOutcomes == {"ok", "credential_raises", "client_raises"}

\* mutant of EnsureContainer: the objects are constructed on every call,
\* whether or not a client exists
EnsureContainerAlways(self, o, nc, nk) ==
    IF o = "credential_raises"
    THEN [raised |-> TRUE, self |-> self, nc |-> nc, nk |-> nk]
    ELSE LET s1 == [self EXCEPT !.credential = Some(nc + 1)]
         IN  IF o = "client_raises"
             THEN [raised |-> TRUE, self |-> s1, nc |-> nc + 1, nk |-> nk]
             ELSE [raised |-> FALSE,
                   self |-> [s1 EXCEPT !.client = Some(nk + 1),
                                       !.container = Some(nk + 1)],
                   nc |-> nc + 1, nk |-> nk + 1]

\* TruckingOperationsStore._ensure_container: nc credentials and nk clients
\* have been constructed so far; o is what the constructors do this time
EnsureContainer(self, o, nc, nk) ==
    IF self.client # None
    THEN [raised |-> FALSE, self |-> self, nc |-> nc, nk |-> nk]
    ELSE IF o = "credential_raises"
    THEN [raised |-> TRUE, self |-> self, nc |-> nc, nk |-> nk]
    ELSE LET s1 == [self EXCEPT !.credential = Some(nc + 1)]
         IN  IF o = "client_raises"
             THEN [raised |-> TRUE, self |-> s1, nc |-> nc + 1, nk |-> nk]
             ELSE [raised |-> FALSE,
                   self |-> [s1 EXCEPT !.client = Some(nk + 1),
                                       !.container = Some(nk + 1)],
                   nc |-> nc + 1, nk |-> nk + 1]

\* mutant of QueryLoadContext: the query also filters on the type tag
QueryLoadContextLoadsOnly(items, load_id) ==
    {c \in items : c.type = "load" /\ c.load_id = Some(load_id)}

\* SELECT * FROM c WHERE c.load_id = @load_id
QueryLoadContext(items, load_id) ==
    {c \in items : c.load_id = Some(load_id)}

\* mutant of QueryExceptions: the load_id condition is missing
QueryExceptionsAnyLoad(items, load_id) ==
    {c \in items : c.type = "exception"}

\* SELECT * FROM c WHERE c.type = 'exception' AND c.load_id = @load_id
QueryExceptions(items, load_id) ==
    {c \in items : c.type = "exception" /\ c.load_id = Some(load_id)}

\* mutant of QueryExceptionsByType: the comparison folds letter case
QueryExceptionsByTypeFolded(items, exception_type) ==
    {c \in items : c.type = "exception"
                   /\ \E t \in c.exception_type :
                         Lower(t) = Lower(exception_type)}

\* SELECT * FROM c WHERE c.type = 'exception'
\*   AND c.exception_type = @exception_type
QueryExceptionsByType(items, exception_type) ==
    {c \in items : c.type = "exception"
                   /\ c.exception_type = Some(exception_type)}

Tools == {"get_load_context", "get_load_exceptions", "get_exceptions_by_type"}

\* the store query each facade tool delegates to, in return order
StoreQuery(tool, arg, items) ==
    StorageOrder(
        CASE tool = "get_load_context" -> QueryLoadContext(items, arg)
          [] tool = "get_load_exceptions" -> QueryExceptions(items, arg)
          [] OTHER -> QueryExceptionsByType(items, arg))

\* ------------------------------------------------------------------
\* The facade tools (MCP/operations/app.py)
\* ------------------------------------------------------------------

Req == 1..MaxReq

\* arguments the callers of this model pass
LoadIdArgs == {L7712, L9999}

TypeArgs == {LateDelivery, Lower(LateDelivery)}

ArgsOf(tool) == IF tool = "get_exceptions_by_type" THEN TypeArgs ELSE LoadIdArgs

\* container is the handle _ensure_container returned to the store method
\* of the request (a local of that method, gone when the method ends)
IdleReq ==
    [pc |-> "idle", tool |-> "none", arg |-> <<>>, container |-> None,
     results |-> <<>>, storeOutcome |-> "none", storeValue |-> <<>>,
     outcome |-> "none", response |-> <<>>, log |-> <<>>]

\* entry of a tool: logger.info("Requested ...") and the try block begins
FacadeEnter(tool, arg) ==
    [IdleReq EXCEPT !.pc = "iterating", !.tool = tool, !.arg = arg,
                    !.log = <<"INFO">>]

\* the try block's normal exit: logger.info("Returned ..."); return results
FacadeReturn(q, results) ==
    [q EXCEPT !.pc = "returned", !.results = <<>>, !.container = None,
              !.storeOutcome = "returned", !.storeValue = results,
              !.outcome = "list", !.response = results,
              !.log = q.log \o <<"INFO">>]

\* mutant of FacadeExcept: the error is logged and raised again
FacadeExceptPropagates(q) ==
    [q EXCEPT !.pc = "returned", !.results = <<>>, !.container = None,
              !.storeOutcome = "raised", !.storeValue = <<>>,
              !.outcome = "fault", !.response = <<>>,
              !.log = q.log \o <<"ERROR", "ERROR">>]

\* mutant of FacadeExcept: the empty list is returned without a log record
FacadeExceptQuiet(q) ==
    [q EXCEPT !.pc = "returned", !.results = <<>>, !.container = None,
              !.storeOutcome = "raised", !.storeValue = <<>>,
              !.outcome = "list", !.response = <<>>]

\* except Exception: logger.error(...); logger.exception(...); return []
FacadeExcept(q) ==
    [q EXCEPT !.pc = "returned", !.results = <<>>, !.container = None,
              !.storeOutcome = "raised", !.storeValue = <<>>,
              !.outcome = "list", !.response = <<>>,
              !.log = q.log \o <<"ERROR", "ERROR">>]

\* ------------------------------------------------------------------
\* TruckingSearchIndex (data_generator/search_index.py)
\* ------------------------------------------------------------------

\* documents one call of upload_documents may carry
MaxDocs == 2
\* largest value of the parameter top of search
MaxTop == 2
\* cap on the number of calls of create_index_if_not_exists
MaxEnsure == 2

\* the value of SEARCH_INDEX, and another index on the same service
IndexName == "trucking-docs"

IndexNames == {IndexName, "other-index"}

\* the single quote
Quote == 39

\* load ids of documents: "L1", and "L'1" which holds a quote
LoadL1 == <<76, 49>>

LoadLq1 == <<76, Quote, 49>>

\* a document as upload_documents expects it
Doc(id, doc_type, load_id, content) ==
    [id |-> id, doc_type |-> doc_type, load_id |-> load_id,
     content |-> content]

\* the documents callers of this model upload: ids "a", "b"
Docs ==
    {Doc(<<97>>, "sla", LoadL1, <<97, 98>>),
     Doc(<<98>>, "driver_note", LoadLq1, <<98, 99>>)}

\* sequences of at most n elements of S
SeqsUpTo(S, n) == UNION {[1..k -> S] : k \in 0..n}

\* the embedding the provider computes for a text (a function of the text)
Embedding(text) == <<Len(text), IF text = <<>> THEN 0 ELSE Head(text) % 7>>

\* EmbeddingClient.embed: one vector per text, in order
Embed(texts) == [i \in 1..Len(texts) |-> Embedding(texts[i])]

\* mutant of CreateIndexIfNotExists: the index is created without looking
\* at the list of existing indexes
CreateIndexAlways(existing, hasId, listOk, createOk) ==
    IF ~listOk \/ ~hasId
    THEN [listed |-> FALSE, issued |-> FALSE, outcome |-> "raised",
          indexes |-> existing]
    ELSE IF createOk
    THEN [listed |-> IndexName \in existing, issued |-> TRUE,
          outcome |-> "created", indexes |-> existing \cup {IndexName}]
    ELSE [listed |-> IndexName \in existing, issued |-> TRUE,
          outcome |-> "raised", indexes |-> existing]

\* create_index_if_not_exists against the indexes `existing`: listOk and
\* createOk say whether list_indexes and create_index succeed, hasId
\* whether os.environ holds AZURE_CLIENT_RESOURCE_ID
CreateIndexIfNotExists(existing, hasId, listOk, createOk) ==
    IF ~listOk
    THEN [listed |-> FALSE, issued |-> FALSE, outcome |-> "raised",
          indexes |-> existing]
    ELSE IF IndexName \in existing
    THEN [listed |-> TRUE, issued |-> FALSE, outcome |-> "noop",
          indexes |-> existing]
    ELSE IF ~hasId
    THEN [listed |-> FALSE, issued |-> FALSE, outcome |-> "raised",
          indexes |-> existing]
    ELSE IF createOk
    THEN [listed |-> FALSE, issued |-> TRUE, outcome |-> "created",
          indexes |-> existing \cup {IndexName}]
    ELSE [listed |-> FALSE, issued |-> TRUE, outcome |-> "raised",
          indexes |-> existing]

\* zip(documents, embeddings) into the enriched documents
Enrich(documents, embeddings) ==
    LET n == IF Len(documents) < Len(embeddings) THEN Len(documents)
             ELSE Len(embeddings)
    IN  [i \in 1..n |->
            [id |-> documents[i].id, doc_type |-> documents[i].doc_type,
             load_id |-> documents[i].load_id,
             content |-> documents[i].content,
             content_vector |-> embeddings[i]]]

\* mutant of Failed: only the first per-document result is looked at
FailedFirstOnly(succeeded) ==
    IF succeeded # <<>> /\ ~succeeded[1] THEN <<1>> ELSE <<>>

\* failed = [r for r in result if not r.succeeded], as positions
Failed(succeeded) ==
    SelectSeq([i \in 1..Len(succeeded) |-> i], LAMBDA i : ~succeeded[i])

NoUpload ==
    [called |-> FALSE, documents |-> <<>>, embedRequests |-> 0,
     submitted |-> None, succeeded |-> <<>>, outcome |-> "none",
     failedCount |-> 0]

\* upload_documents(documents): embedOk and uploadOk say whether the
\* embedding request and the upload request return, succeeded[i] is the
\* service's per-document result
UploadDocuments(documents, embedOk, uploadOk, succeeded) ==
    LET call == [NoUpload EXCEPT !.called = TRUE, !.documents = documents]
    IN
    IF documents = <<>>
    THEN [call EXCEPT !.outcome = "ok"]
    ELSE IF ~embedOk
    THEN [call EXCEPT !.embedRequests = 1, !.outcome = "raised"]
    ELSE
    LET texts == [i \in 1..Len(documents) |-> documents[i].content]
        enriched_docs == Enrich(documents, Embed(texts))
        sent == [call EXCEPT !.embedRequests = 1,
                             !.submitted = Some(enriched_docs)]
        failed == Failed(succeeded)
    IN  IF ~uploadOk
        THEN [sent EXCEPT !.outcome = "raised"]
        ELSE IF failed # <<>>
        THEN [sent EXCEPT !.succeeded = succeeded, !.outcome = "failed",
                          !.failedCount = Len(failed)]
        ELSE [sent EXCEPT !.succeeded = succeeded, !.outcome = "ok"]

\* the index after the service has applied an upload: the documents whose
\* result is successful replace or add by key
Applied(stored, call) ==
    IF call.submitted = None \/ call.succeeded = <<>>
    THEN stored
    ELSE LET batch == CHOOSE b \in call.submitted : TRUE
             ok == {batch[i] : i \in {j \in 1..Len(batch) : call.succeeded[j]}}
         IN  {d \in stored : \A e \in ok : e.id # d.id} \cup ok

\* "load_id eq '"
FilterPrefix == <<108, 111, 97, 100, 95, 105, 100, 32, 101, 113, 32, Quote>>

\* filter_expr = f"load_id eq '{load_id}'" if load_id else None
FilterExpr(load_id) ==
    IF Falsy(load_id) THEN None
    ELSE Some(FilterPrefix \o (CHOOSE v \in load_id : TRUE) \o <<Quote>>)

\* the service reads an OData string literal whose opening quote has been
\* consumed: '' stands for one quote, a single quote closes the literal,
\* and nothing may follow it; "error" is a malformed literal
RECURSIVE ReadLiteral(_, _)
ReadLiteral(s, acc) ==
    IF s = <<>> THEN [ok |-> FALSE, value |-> <<>>]
    ELSE IF Head(s) # Quote THEN ReadLiteral(Tail(s), Append(acc, Head(s)))
    ELSE IF Len(s) >= 2 /\ s[2] = Quote
    THEN ReadLiteral(Tail(Tail(s)), Append(acc, Quote))
    ELSE IF Tail(s) = <<>> THEN [ok |-> TRUE, value |-> acc]
    ELSE [ok |-> FALSE, value |-> <<>>]

\* the service parses a filter of the form  load_id eq '<literal>'
ParseFilter(f) ==
    IF Len(f) >= Len(FilterPrefix)
       /\ SubSeq(f, 1, Len(FilterPrefix)) = FilterPrefix
    THEN ReadLiteral(SubSeq(f, Len(FilterPrefix) + 1, Len(f)), <<>>)
    ELSE [ok |-> FALSE, value |-> <<>>]

\* the service's relevance score of a document for a query: the number of
\* characters the content shares with the search text, plus one when the
\* vectors agree
ServiceScore(d, search_text, vector) ==
    Cardinality(Range(d.content) \cap Range(search_text))
    + (IF d.content_vector = vector THEN 1 ELSE 0)

\* documents ordered by descending score, ties by id
RECURSIVE Ranked(_, _, _)
Ranked(S, search_text, vector) ==
    IF S = {} THEN <<>>
    ELSE LET best == CHOOSE x \in S : \A y \in S :
                        \/ ServiceScore(x, search_text, vector)
                             > ServiceScore(y, search_text, vector)
                        \/ /\ ServiceScore(x, search_text, vector)
                                = ServiceScore(y, search_text, vector)
                           /\ StrLeq(x.id, y.id)
         IN  <<best>> \o Ranked(S \ {best}, search_text, vector)

\* search_client.search(search_text, filter, vector_queries, top) on the
\* documents `stored`: the service's results with their scores
ServiceSearch(stored, search_text, filter, vector, top) ==
    LET parsed == IF filter = None THEN [ok |-> TRUE, value |-> <<>>]
                  ELSE ParseFilter(CHOOSE f \in filter : TRUE)
        hits == IF filter = None THEN stored
                ELSE {d \in stored : d.load_id = parsed.value}
        ranked == Ranked(hits, search_text, vector)
        n == IF Len(ranked) < top THEN Len(ranked) ELSE top
    IN  IF ~parsed.ok THEN [ok |-> FALSE, results |-> <<>>]
        ELSE [ok |-> TRUE,
              results |-> [i \in 1..n |->
                  [doc |-> ranked[i],
                   score |-> ServiceScore(ranked[i], search_text, vector)]]]

NoSearch ==
    [called |-> FALSE, query |-> <<>>, load_id |-> None, top |-> 0,
     filter |-> None, outcome |-> "none", results |-> <<>>,
     service |-> <<>>]

\* search(query, load_id, top) on the documents `stored`: embedOk and
\* searchOk say whether the embedding request and the search request return
Search(query, load_id, top, stored, embedOk, searchOk) ==
    LET call == [NoSearch EXCEPT !.called = TRUE, !.query = query,
                                 !.load_id = load_id, !.top = top]
    IN
    IF ~embedOk THEN [call EXCEPT !.outcome = "raised"]
    ELSE
    LET query_vector == Embed(<<query>>)[1]
        filter_expr == FilterExpr(load_id)
        asked == [call EXCEPT !.filter = filter_expr]
        answer == ServiceSearch(stored, query, filter_expr, query_vector, top)
    IN  IF ~searchOk \/ ~answer.ok
        THEN [asked EXCEPT !.outcome = "raised"]
        ELSE [asked EXCEPT
                !.outcome = "returned",
                !.service = answer.results,
                !.results = [i \in 1..Len(answer.results) |->
                    [id |-> answer.results[i].doc.id,
                     doc_type |-> answer.results[i].doc.doc_type,
                     load_id |-> answer.results[i].doc.load_id,
                     content |-> answer.results[i].doc.content,
                     score |-> answer.results[i].score]]]

\* ------------------------------------------------------------------
\* The data generator (data_generator/generate.py)
\* ------------------------------------------------------------------

\* loads main generates (500 in the code)
NLoads == 2
\* trucks main generates (25 in the code)
NTrucks == 1
\* drivers main generates (50 in the code)
NDrivers == 1
\* leading loads main writes a load confirmation document for (250 in the
\* code)
NLoadDocs == 1

\* str(n) of a natural number
RECURSIVE Digits(_)
Digits(n) ==
    IF n < 10 THEN <<48 + n>> ELSE Digits(n \div 10) \o <<48 + (n % 10)>>

\* load["load_id"] of a record that has the property
LoadIdOf(c) == CHOOSE v \in c.load_id : TRUE

\* generate_trucks(n): ids "T-1000", "T-1001", ...
GenerateTrucks(n) ==
    [i \in 1..n |-> Item(<<84, 45>> \o Digits(1000 + (i - 1)), "truck", None, None)]

\* generate_drivers(n): ids "D-2000", "D-2001", ...
GenerateDrivers(n) ==
    [i \in 1..n |-> Item(<<68, 45>> \o Digits(2000 + (i - 1)), "driver", None, None)]

\* generate_loads(n, start_date): ids "L-7000", "L-7001", ...
GenerateLoads(n) ==
    [i \in 1..n |->
        Item(<<76, 45>> \o Digits(7000 + (i - 1)), "load",
             Some(<<76, 45>> \o Digits(7000 + (i - 1))), None)]

\* generate_dispatch(loads, trucks, drivers): one record "DP-<load_id>" for
\* each load of the list it is given
GenerateDispatch(loads) ==
    [i \in 1..Len(loads) |->
        Item(<<68, 80, 45>> \o LoadIdOf(loads[i]), "dispatch",
             Some(LoadIdOf(loads[i])), None)]

\* what the random draws of generate_exceptions can be for one load: no
\* exception, or an exception of one of the four types
Draws == {None} \cup {Some(t) : t \in ExceptionTypes}

\* generate_exceptions(loads, exception_rate): a record "EX-<load_id>" for
\* each load whose draw falls under the rate, with the drawn type
GenerateExceptions(loads, draws) ==
    LET hit == SelectSeq([i \in 1..Len(loads) |-> i],
                         LAMBDA i : draws[i] # None)
    IN  [k \in 1..Len(hit) |->
            Item(<<69, 88, 45>> \o LoadIdOf(loads[hit[k]]), "exception",
                 Some(LoadIdOf(loads[hit[k]])), draws[hit[k]])]

\* mutant of InjectAnchorException: the anchor exception is of another type
InjectAnchorBreakdown(loads, exceptions) ==
    [loads |-> <<AnchorLoad>> \o loads,
     exceptions |-> Append(exceptions,
                           [AnchorException EXCEPT
                               !.exception_type = Some(Breakdown)])]

\* inject_anchor_exception(loads, exceptions): loads.insert(0, anchor_load);
\* exceptions.append(anchor_exception)
InjectAnchorException(loads, exceptions) ==
    [loads |-> <<AnchorLoad>> \o loads,
     exceptions |-> Append(exceptions, AnchorException)]

\* generate_load_doc(load): the document "doc-load-<load_id>"; of the
\* template only the line "Load <load_id>\n" formats a property the records
\* of this model carry
GenerateLoadDoc(load) ==
    [id |-> <<100, 111, 99, 45, 108, 111, 97, 100, 45>> \o LoadIdOf(load), doc_type |-> "load_confirmation",
     load_id |-> LoadIdOf(load),
     content |-> <<76, 111, 97, 100, 32>> \o LoadIdOf(load) \o <<10>>]

\* generate_anchor_documents(): "doc-sla-C-104", "doc-driver-D-332" and
\* "doc-customer-L-7712", each content cut to its first word
GenerateAnchorDocuments ==
    <<[id |-> <<100, 111, 99, 45, 115, 108, 97, 45, 67, 45, 49, 48, 52>>, doc_type |-> "sla", load_id |-> L7712,
       content |-> <<83, 101, 99, 116, 105, 111, 110>>],
      [id |-> <<100, 111, 99, 45, 100, 114, 105, 118, 101, 114, 45, 68, 45, 51, 51, 50>>, doc_type |-> "driver_note", load_id |-> L7712,
       content |-> <<48, 49, 58, 49, 55>>],
      [id |-> <<100, 111, 99, 45, 99, 117, 115, 116, 111, 109, 101, 114, 45, 76, 45, 55, 55, 49, 50>>, doc_type |-> "customer_email", load_id |-> L7712,
       content |-> <<87, 101>>]>>

\* rag_docs of main: the load confirmations of loads[:NLoadDocs], then the
\* anchor documents
RagDocs(loads) ==
    LET n == IF Len(loads) < NLoadDocs THEN Len(loads) ELSE NLoadDocs
    IN  [i \in 1..n |-> GenerateLoadDoc(loads[i])] \o GenerateAnchorDocuments

\* container.upsert_item(item): insert, or replace the item that has the
\* same id in the same partition
UpsertItem(items, item) ==
    {c \in items : ~(c.id = item.id /\ c.load_id = item.load_id)} \cup {item}

\* the generator before main has run, and after main has raised
NoSeed == [pc |-> "start", pending |-> <<>>, loads |-> <<>>]

SeedFailed == [pc |-> "failed", pending |-> <<>>, loads |-> <<>>]

VARIABLES
    environ,       \* the process environment of the tool server
    appState,      \* "starting", "serving" or "crashed" (import of app.py)
    startupError,  \* the settings named by the ValueError of a failed start
    store,         \* the module-level TruckingOperationsStore
    nCredential,   \* DefaultAzureCredential objects constructed
    nClient,       \* CosmosClient objects constructed
    db,            \* the records in the container
    storeUp,       \* whether the document store is reachable (fixed per run)
    req            \* the facade requests

VARIABLES
    hasResourceId, \* whether AZURE_CLIENT_RESOURCE_ID is in the environment
    indexes,       \* names of the indexes on the search service
    ensured,       \* calls of create_index_if_not_exists and their effects
    indexDocs,     \* the documents in the target index
    upload,        \* the last call of upload_documents
    found          \* the last call of search

VARIABLES
    seed           \* main of the data generator: its position, the items it
                   \* has still to upsert, and its list of loads

mcpVars ==
    <<environ, appState, startupError, store, nCredential, nClient, db,
      storeUp, req>>

searchVars == <<hasResourceId, indexes, ensured, indexDocs, upload, found>>

genVars == <<seed>>

vars == <<mcpVars, searchVars, genVars>>

\* ------------------------------------------------------------------
\* The search side: the data generator's calls on TruckingSearchIndex
\* ------------------------------------------------------------------

NoEnsure ==
    [calls |-> 0, requests |-> 0, created |-> 0, last |-> "none",
     lastListed |-> FALSE]

\* the state of the search side before any call
SearchSideIdle ==
    /\ hasResourceId = TRUE
    /\ indexes = {}
    /\ ensured = NoEnsure
    /\ indexDocs = {}
    /\ upload = NoUpload
    /\ found = NoSearch

\* the tool server is not part of the search-side specification
McpSideIdle ==
    /\ environ = [n \in {SettingNames[i] : i \in 1..3} |-> None]
    /\ appState = "starting"
    /\ startupError = <<>>
    /\ store = NoStore
    /\ nCredential = 0
    /\ nClient = 0
    /\ db = {}
    /\ storeUp = TRUE
    /\ req = [r \in Req |-> IdleReq]

SearchInit ==
    /\ McpSideIdle
    /\ hasResourceId \in BOOLEAN
    /\ indexes = {}
    /\ ensured = NoEnsure
    /\ indexDocs = {}
    /\ upload = NoUpload
    /\ found = NoSearch
    /\ seed = NoSeed

\* one call of create_index_if_not_exists
EnsureIndex ==
    /\ ensured.calls < MaxEnsure
    /\ \E listOk \in BOOLEAN, createOk \in BOOLEAN :
        LET c == CreateIndexIfNotExists(indexes, hasResourceId, listOk,
                                        createOk)
        IN  /\ indexes' = c.indexes
            /\ ensured' =
                 [calls |-> ensured.calls + 1,
                  requests |-> ensured.requests + (IF c.issued THEN 1 ELSE 0),
                  created |-> ensured.created
                              + (IF c.outcome = "created" THEN 1 ELSE 0),
                  last |-> c.outcome,
                  lastListed |-> c.listed]
    /\ UNCHANGED <<hasResourceId, indexDocs, upload, found>>
    /\ UNCHANGED <<mcpVars, genVars>>

\* another actor creates an index on the service
OtherActorCreates(name) ==
    /\ name \notin indexes
    /\ indexes' = indexes \cup {name}
    /\ UNCHANGED <<hasResourceId, ensured, indexDocs, upload, found>>
    /\ UNCHANGED <<mcpVars, genVars>>

\* one call of upload_documents; the upload request fails when the target
\* index does not exist. What a call returned is kept until the next call
\* of upload_documents or search. (A request that is never sent, or that
\* fails, has no outcome of its own to choose.)
CallUpload(documents) ==
    /\ \E embedOk \in BOOLEAN, uploadOk \in BOOLEAN,
          succeeded \in [1..Len(documents) -> BOOLEAN] :
        /\ uploadOk => embedOk /\ IndexName \in indexes
        /\ ~uploadOk => \A i \in 1..Len(documents) : ~succeeded[i]
        /\ upload' = UploadDocuments(documents, embedOk, uploadOk, succeeded)
        /\ indexDocs' = Applied(indexDocs, upload')
    /\ found' = NoSearch
    /\ UNCHANGED <<hasResourceId, indexes, ensured>>
    /\ UNCHANGED <<mcpVars, genVars>>

\* queries and load ids callers of this model search with: a load id may be
\* absent, empty, plain, or hold quotes ("L'1", "L''1")
SearchTexts == {<<97>>, <<99, 100>>}

SearchLoadIds ==
    {None, Some(<<>>), Some(LoadL1), Some(LoadLq1),
     Some(<<76, Quote, Quote, 49>>)}

\* one call of search; the search request fails when the target index does
\* not exist
CallSearch(query, load_id, top) ==
    /\ \E embedOk \in BOOLEAN, searchOk \in BOOLEAN :
        /\ searchOk => embedOk /\ IndexName \in indexes
        /\ found' = Search(query, load_id, top, indexDocs, embedOk, searchOk)
    /\ upload' = NoUpload
    /\ UNCHANGED <<hasResourceId, indexes, ensured, indexDocs>>
    /\ UNCHANGED <<mcpVars, genVars>>

SearchNext ==
    \/ EnsureIndex
    \/ \E name \in IndexNames : OtherActorCreates(name)
    \/ \E documents \in SeqsUpTo(Docs, MaxDocs) : CallUpload(documents)
    \/ \E query \in SearchTexts, load_id \in SearchLoadIds, top \in 1..MaxTop :
          CallSearch(query, load_id, top)

SearchSpec == SearchInit /\ [][SearchNext]_vars

\* The tool server starts in any environment, against a store that is
\* either reachable and still empty, or seeded with the anchor records and
\* unreachable for the whole run (for producers as well).
Init ==
    /\ environ \in [{SettingNames[i] : i \in 1..3} -> SettingValues]
    /\ appState = "starting"
    /\ startupError = <<>>
    /\ store = NoStore
    /\ nCredential = 0
    /\ nClient = 0
    /\ storeUp \in BOOLEAN
    /\ db = IF storeUp THEN {} ELSE {AnchorLoad, AnchorException}
    /\ req = [r \in Req |-> IdleReq]
    /\ SearchSideIdle
    /\ seed = NoSeed

\* no request is between its invocation and the caller taking its response
Quiescent == \A r \in Req : req[r].pc = "idle"

\* app.py line 24: store = TruckingOperationsStore() at import
ImportApp ==
    /\ appState = "starting"
    /\ LET made == StoreInit(environ)
       IN  /\ appState' = IF made.raised THEN "crashed" ELSE "serving"
           /\ startupError' = made.missing
           /\ store' = made.self
    /\ UNCHANGED <<environ, nCredential, nClient, db, storeUp, req>>
    /\ UNCHANGED <<searchVars, genVars>>

\* CosmosStore.upsert_items, one item: insert, or replace the item that has
\* the same id in the same partition
Upsert(item) ==
    /\ Quiescent
    /\ storeUp
    /\ db' = {c \in db : ~(c.id = item.id /\ c.load_id = item.load_id)}
             \cup {item}
    /\ db' # db
    /\ UNCHANGED <<environ, appState, startupError, store, nCredential,
                   nClient, storeUp, req>>
    /\ UNCHANGED <<searchVars, genVars>>

\* a tool is invoked: it runs without suspension through
\* _ensure_container up to the first fetch of the query iterator (the
\* constructors run, and can raise, only while there is no client)
Invoke(r, tool, arg) ==
    /\ appState = "serving"
    /\ req[r].pc = "idle"
    /\ \E o \in IF store.client = None THEN EnsureOutcomes ELSE {"ok"} :
        LET e == EnsureContainer(store, o, nCredential, nClient)
            q == [FacadeEnter(tool, arg) EXCEPT
                    !.container = IF e.raised THEN None ELSE e.self.container]
        IN  /\ e.nc <= MaxConstruct
            /\ store' = e.self
            /\ nCredential' = e.nc
            /\ nClient' = e.nk
            /\ req' = [req EXCEPT ![r] = IF e.raised THEN FacadeExcept(q)
                                         ELSE q]
    /\ UNCHANGED <<environ, appState, startupError, db, storeUp>>
    /\ UNCHANGED <<searchVars, genVars>>

\* a tool is invoked on a process whose import of app.py raised: no tool was
\* ever defined, the caller gets a fault and no list
InvokeCrashed(r, tool, arg) ==
    /\ appState = "crashed"
    /\ req[r].pc = "idle"
    /\ req' = [req EXCEPT ![r] = [IdleReq EXCEPT !.pc = "returned",
                                                 !.tool = tool, !.arg = arg,
                                                 !.outcome = "fault"]]
    /\ UNCHANGED <<environ, appState, startupError, store, nCredential,
                   nClient, db, storeUp>>
    /\ UNCHANGED <<searchVars, genVars>>

\* mutant of FetchPage: the query consumes the items of the page it reads
FetchPageConsumes(r) ==
    /\ req[r].pc = "iterating"
    /\ storeUp
    /\ LET q == req[r]
           all == StoreQuery(q.tool, q.arg, db)
           got == Len(q.results)
           upto == IF got + PageSize < Len(all) THEN got + PageSize
                   ELSE Len(all)
           now == q.results \o SubSeq(all, got + 1, upto)
       IN  /\ req' = [req EXCEPT ![r] = IF upto = Len(all)
                                        THEN FacadeReturn(q, now)
                                        ELSE [q EXCEPT !.results = now]]
           /\ db' = db \ Range(SubSeq(all, got + 1, upto))
    /\ UNCHANGED <<environ, appState, startupError, store, nCredential,
                   nClient, storeUp>>
    /\ UNCHANGED <<searchVars, genVars>>

\* async for item in query_items(...): the next page arrives and its items
\* are appended; after the last page the store method returns the list
FetchPage(r) ==
    /\ req[r].pc = "iterating"
    /\ storeUp
    /\ LET q == req[r]
           all == StoreQuery(q.tool, q.arg, db)
           got == Len(q.results)
           upto == IF got + PageSize < Len(all) THEN got + PageSize
                   ELSE Len(all)
           now == q.results \o SubSeq(all, got + 1, upto)
       IN  req' = [req EXCEPT ![r] = IF upto = Len(all)
                                     THEN FacadeReturn(q, now)
                                     ELSE [q EXCEPT !.results = now]]
    /\ UNCHANGED <<environ, appState, startupError, store, nCredential,
                   nClient, db, storeUp>>
    /\ UNCHANGED <<searchVars, genVars>>

\* the fetch of a page raises (transport, authentication, throttling)
FetchRaises(r) ==
    /\ req[r].pc = "iterating"
    /\ req' = [req EXCEPT ![r] = FacadeExcept(req[r])]
    /\ UNCHANGED <<environ, appState, startupError, store, nCredential,
                   nClient, db, storeUp>>
    /\ UNCHANGED <<searchVars, genVars>>

\* the caller takes the response
Collect(r) ==
    /\ req[r].pc = "returned"
    /\ req' = [req EXCEPT ![r] = IdleReq]
    /\ UNCHANGED <<environ, appState, startupError, store, nCredential,
                   nClient, db, storeUp>>
    /\ UNCHANGED <<searchVars, genVars>>

Next ==
    \/ ImportApp
    \/ \E item \in Producible : Upsert(item)
    \/ \E r \in Req, tool \in Tools : \E arg \in ArgsOf(tool) :
          Invoke(r, tool, arg)
    \/ \E r \in Req, tool \in Tools : \E arg \in ArgsOf(tool) :
          InvokeCrashed(r, tool, arg)
    \/ \E r \in Req : FetchPage(r)
    \/ \E r \in Req : FetchRaises(r)
    \/ \E r \in Req : Collect(r)

Spec == Init /\ [][Next]_vars

\* ------------------------------------------------------------------
\* The seeding run: main of generate.py as the only producer, then the
\* tool server on the seeded store
\* ------------------------------------------------------------------

\* the settings are present, the store is reachable and empty, the search
\* service may or may not hold the target index already
SeedInit ==
    /\ environ = [n \in {SettingNames[i] : i \in 1..3} |-> Some(<<104>>)]
    /\ appState = "starting"
    /\ startupError = <<>>
    /\ store = NoStore
    /\ nCredential = 0
    /\ nClient = 0
    /\ storeUp = TRUE
    /\ db = {}
    /\ req = [r \in Req |-> IdleReq]
    /\ hasResourceId = TRUE
    /\ indexes \in {{}, {IndexName}}
    /\ ensured = NoEnsure
    /\ indexDocs = {}
    /\ upload = NoUpload
    /\ found = NoSearch
    /\ seed = NoSeed

\* main, lines 216-231: the two clients are constructed (and can raise),
\* the index is ensured, the records are generated with whatever the
\* random draws give, and the anchor records are injected; what is left is
\* to upsert trucks, drivers, loads, dispatch and exceptions in that order
SeedStart ==
    /\ seed.pc = "start"
    /\ \E constructed \in BOOLEAN, listOk \in BOOLEAN, createOk \in BOOLEAN,
          draws \in [1..NLoads -> Draws] :
        LET c == CreateIndexIfNotExists(indexes, hasResourceId, listOk,
                                        createOk)
            trucks == GenerateTrucks(NTrucks)
            drivers == GenerateDrivers(NDrivers)
            loads == GenerateLoads(NLoads)
            dispatch == GenerateDispatch(loads)
            exceptions == GenerateExceptions(loads, draws)
            anchored == InjectAnchorException(loads, exceptions)
        IN  IF ~constructed
            THEN /\ seed' = SeedFailed
                 /\ UNCHANGED <<indexes, ensured>>
            ELSE /\ indexes' = c.indexes
                 /\ ensured' =
                      [calls |-> ensured.calls + 1,
                       requests |-> ensured.requests
                                    + (IF c.issued THEN 1 ELSE 0),
                       created |-> ensured.created
                                   + (IF c.outcome = "created" THEN 1 ELSE 0),
                       last |-> c.outcome,
                       lastListed |-> c.listed]
                 /\ seed' =
                      IF c.outcome = "raised" THEN SeedFailed
                      ELSE [pc |-> "writing",
                            pending |-> trucks \o drivers \o anchored.loads
                                        \o dispatch \o anchored.exceptions,
                            loads |-> anchored.loads]
    /\ UNCHANGED <<hasResourceId, indexDocs, upload, found>>
    /\ UNCHANGED mcpVars

\* main, lines 234-238: the next item is upserted, or the request raises
\* and main ends with the items written so far
SeedUpsert ==
    /\ seed.pc = "writing"
    /\ seed.pending # <<>>
    /\ \E ok \in BOOLEAN :
        IF ok
        THEN /\ db' = UpsertItem(db, Head(seed.pending))
             /\ seed' = [seed EXCEPT !.pending = Tail(seed.pending)]
        ELSE /\ db' = db
             /\ seed' = SeedFailed
    /\ UNCHANGED <<environ, appState, startupError, store, nCredential,
                   nClient, storeUp, req>>
    /\ UNCHANGED searchVars

\* main, lines 241-257: the documents are indexed; main is done when
\* upload_documents returns
SeedIndex ==
    /\ seed.pc = "writing"
    /\ seed.pending = <<>>
    /\ LET documents == RagDocs(seed.loads)
       IN  \E embedOk \in BOOLEAN, uploadOk \in BOOLEAN,
              succeeded \in [1..Len(documents) -> BOOLEAN] :
            /\ uploadOk => embedOk /\ IndexName \in indexes
            /\ ~uploadOk => \A i \in 1..Len(documents) : ~succeeded[i]
            /\ upload' = UploadDocuments(documents, embedOk, uploadOk,
                                         succeeded)
            /\ indexDocs' = Applied(indexDocs, upload')
            /\ seed' = IF upload'.outcome = "ok"
                       THEN [pc |-> "done", pending |-> <<>>, loads |-> <<>>]
                       ELSE SeedFailed
    /\ UNCHANGED <<hasResourceId, indexes, ensured, found>>
    /\ UNCHANGED mcpVars

\* the arguments the tools are called with on the seeded store
SeedArgsOf(tool) ==
    IF tool = "get_exceptions_by_type" THEN {LateDelivery, Breakdown}
    ELSE {L7712, L7000}

\* the tool server is started once the seeding run has completed
SeedImportApp ==
    /\ seed.pc = "done"
    /\ ImportApp

\* the tools are called on the seeded store, one call at a time
SeedInvoke(r, tool, arg) ==
    /\ seed.pc = "done"
    /\ Quiescent
    /\ Invoke(r, tool, arg)

SeedNext ==
    \/ SeedStart
    \/ SeedUpsert
    \/ SeedIndex
    \/ SeedImportApp
    \/ \E r \in Req, tool \in Tools : \E arg \in SeedArgsOf(tool) :
          SeedInvoke(r, tool, arg)
    \/ \E r \in Req : FetchPage(r)
    \/ \E r \in Req : FetchRaises(r)
    \/ \E r \in Req : Collect(r)

SeedSpec == SeedInit /\ [][SeedNext]_vars

\* ------------------------------------------------------------------
\* Properties of the facade and of the record store client
\* ------------------------------------------------------------------

\* the requests whose tool has returned to its caller in a serving process
Returned == {r \in Req : req[r].pc = "returned" /\ req[r].outcome # "fault"}

\* the requests of one tool whose store call returned a list
StoreReturned(tool) ==
    {r \in Returned : req[r].tool = tool /\ req[r].storeOutcome = "returned"}

\* a sequence holds no element twice
NoRepeat(s) == Cardinality(Range(s)) = Len(s)

\* C1: every facade tool that has returned either had its store call raise,
\* and then returned the empty list to its caller (no fault) after an
\* error-level log record, or had its store call return a list, and then
\* returned that list unchanged.
C1_FacadeSwallowsErrors ==
    \A r \in Req :
        req[r].pc = "returned" /\ appState = "serving" =>
            /\ req[r].outcome = "list"
            /\ req[r].storeOutcome \in {"raised", "returned"}
            /\ req[r].storeOutcome = "raised" =>
                  /\ req[r].response = <<>>
                  /\ \E i \in 1..Len(req[r].log) : req[r].log[i] = "ERROR"
            /\ req[r].storeOutcome = "returned" =>
                  req[r].response = req[r].storeValue

\* C1 witness: one tool returned [] after its store call raised while a
\* second tool returned the non-empty list of its store call.
C1_Witness ==
    \E r1, r2 \in Req :
        /\ req[r1].pc = "returned" /\ req[r1].storeOutcome = "raised"
        /\ req[r1].response = <<>>
        /\ req[r2].pc = "returned" /\ req[r2].storeOutcome = "returned"
        /\ Len(req[r2].response) >= 2

\* C2: the list get_load_context(loadId) returns holds exactly the stored
\* records whose load_id is loadId, whatever their type, each once.
C2_LoadContextExact ==
    \A r \in StoreReturned("get_load_context") :
        /\ \A c \in db :
              c \in Range(req[r].storeValue) <=> c.load_id = Some(req[r].arg)
        /\ Range(req[r].storeValue) \subseteq db
        /\ NoRepeat(req[r].storeValue)

\* C2 witness: one call returned a load together with its exception, and
\* another call, for a load id no record carries, returned the empty list.
C2_Witness ==
    \E r1, r2 \in StoreReturned("get_load_context") :
        /\ {c.type : c \in Range(req[r1].storeValue)} = {"load", "exception"}
        /\ req[r2].arg = L9999 /\ req[r2].storeValue = <<>>
        /\ db # {}

\* C3: the list get_exceptions(loadId) returns holds exactly the stored
\* records of type "exception" whose load_id is loadId, each once.
C3_ExceptionsExact ==
    \A r \in StoreReturned("get_load_exceptions") :
        /\ \A c \in db :
              c \in Range(req[r].storeValue) <=>
                  (c.type = "exception" /\ c.load_id = Some(req[r].arg))
        /\ Range(req[r].storeValue) \subseteq db
        /\ NoRepeat(req[r].storeValue)

\* C3 witness: a call returned the one exception of its load while the store
\* also held that load's record, an exception of another load and a truck.
C3_Witness ==
    \E r \in StoreReturned("get_load_exceptions") :
        /\ req[r].arg = L7712
        /\ req[r].storeValue = <<AnchorException>>
        /\ {AnchorLoad, Truck1000} \subseteq db
        /\ \E c \in db : c.type = "exception" /\ c.load_id = Some(L7000)

\* C4: the list get_exceptions_by_type(t) returns holds exactly the stored
\* records of type "exception" whose exception_type is t, from every load,
\* each once; so all its records carry the one exception_type t.
C4_ByTypeExact ==
    \A r \in StoreReturned("get_exceptions_by_type") :
        /\ \A c \in db :
              c \in Range(req[r].storeValue) <=>
                  (c.type = "exception" /\ c.exception_type = Some(req[r].arg))
        /\ Range(req[r].storeValue) \subseteq db
        /\ NoRepeat(req[r].storeValue)
        /\ \A c, d \in Range(req[r].storeValue) :
              c.exception_type = d.exception_type

\* C4 witness: one call returned the exceptions of two different loads (two
\* load_id partitions), which were all the exceptions in the store.
C4_Witness ==
    \E r \in StoreReturned("get_exceptions_by_type") :
        /\ {c.load_id : c \in Range(req[r].storeValue)}
              = {Some(L7712), Some(L7000)}
        /\ {c \in db : c.type = "exception"} = Range(req[r].storeValue)

\* C5 (the claim as stated): two calls of get_exceptions_by_type whose
\* arguments differ only in letter case return the same set of records.
C5_CaseInsensitive ==
    \A r1, r2 \in StoreReturned("get_exceptions_by_type") :
        Lower(req[r1].arg) = Lower(req[r2].arg) =>
            Range(req[r1].response) = Range(req[r2].response)

\* the settings that are unset or empty in the environment
Unconfigured == {n \in DOMAIN environ : environ[n] \in {None, Some(<<>>)}}

\* C6: once app.py has been imported, the process has crashed exactly when
\* some setting is unset or empty; the error then names exactly those
\* settings, each once, no store object exists, and no credential or client
\* was constructed and no query issued; otherwise the store object exists
\* and has neither client nor container until _ensure_container has
\* constructed a client.
C6_EagerConfigurationError ==
    appState # "starting" =>
        /\ appState = "crashed" <=> Unconfigured # {}
        /\ appState = "crashed" =>
              /\ Range(startupError) = Unconfigured
              /\ NoRepeat(startupError)
              /\ ~store.constructed
              /\ nCredential = 0 /\ nClient = 0
              /\ \A r \in Req : req[r].storeOutcome = "none"
                                /\ req[r].pc # "iterating"
        /\ appState = "serving" =>
              /\ startupError = <<>>
              /\ store.constructed
              /\ nClient = 0 =>
                    store.client = None /\ store.container = None

\* C6 witness: the import has failed naming two settings, one unset and one
\* empty, and a caller has since tried a tool and got a fault.
C6_Witness ==
    /\ appState = "crashed"
    /\ Len(startupError) = 2
    /\ \E n, m \in Unconfigured : environ[n] = None /\ environ[m] = Some(<<>>)
    /\ \E r \in Req : req[r].outcome = "fault"

\* C7 (the claim as stated): with the store unconfigured or unreachable, a
\* facade operation that has been invoked returned the empty list, not a
\* fault, and logged an error-level record.
C7_EmptyWhenUnconfiguredOrUnreachable ==
    \A r \in Req :
        req[r].pc = "returned" /\ (Unconfigured # {} \/ ~storeUp) =>
            /\ req[r].outcome = "list"
            /\ req[r].response = <<>>
            /\ \E i \in 1..Len(req[r].log) : req[r].log[i] = "ERROR"

\* C7 (amended): with the store configured but unreachable, a facade
\* operation that has been invoked returned the empty list, not a fault,
\* and logged an error-level record; with the store unconfigured the import
\* of app.py has failed, so an invocation yields a fault, no list and no
\* log record.
C7_EmptyWhenUnreachable ==
    \A r \in Req :
        req[r].pc = "returned" =>
            /\ Unconfigured = {} /\ ~storeUp =>
                  /\ req[r].outcome = "list"
                  /\ req[r].response = <<>>
                  /\ \E i \in 1..Len(req[r].log) : req[r].log[i] = "ERROR"
            /\ Unconfigured # {} =>
                  /\ appState = "crashed"
                  /\ req[r].outcome = "fault"
                  /\ req[r].log = <<>>

\* C7 witness: with the store unreachable and records in it, a tool whose
\* connection was set up returned the empty list after an error record.
C7_Witness ==
    \E r \in Req :
        /\ ~storeUp /\ db # {} /\ store.client # None
        /\ req[r].pc = "returned" /\ req[r].response = <<>>
        /\ req[r].log = <<"INFO", "ERROR", "ERROR">>

\* the configuration the constructor stored in the store object
StoreSettings(s) == <<s.constructed, s.endpoint, s.db_name, s.container_name>>

\* C11: a step of a retrieval operation (the invocation of a tool, the
\* arrival or the failure of a page, the return to the caller) leaves the
\* set of records in the document store as it was, and writes no state
\* the requests share other than the connection handle of the store object
\* (its credential, client and container): the environment, the state of
\* the process and the settings held by the store object stay as they were.
C11_RetrievalReadOnly ==
    [][req' # req =>
          /\ db' = db
          /\ environ' = environ
          /\ appState' = appState
          /\ startupError' = startupError
          /\ storeUp' = storeUp
          /\ StoreSettings(store') = StoreSettings(store)
      ]_vars

\* C11 witness: with three records stored and the connection set up, one
\* tool has returned two of the records while another tool's store call
\* has failed.
C11_Witness ==
    /\ Cardinality(db) = 3 /\ store.client # None
    /\ \E r1, r2 \in Req :
          /\ req[r1].pc = "returned" /\ req[r1].storeOutcome = "returned"
          /\ Len(req[r1].response) = 2
          /\ req[r2].pc = "returned" /\ req[r2].storeOutcome = "raised"

\* the requests whose query has been issued on a container handle
Querying == {r \in Req : req[r].container # None}

\* C13 (the claim as stated): in one process at most one credential and at
\* most one client (with its container) have been constructed, and every
\* request that issued a query holds the container of the store object.
C13_HandleConstructedOnce ==
    /\ nCredential <= 1
    /\ nClient <= 1
    /\ \A r \in Querying : req[r].container = store.container

\* C13 (amended): in one process at most one client and one container have
\* been constructed; a credential is constructed by each call that finds no
\* client, so more than one only when the construction of a client raised;
\* once a client exists no call constructs anything or changes the store
\* object; and every request that issued a query holds the one container of
\* the store object, whatever the interleaving of the requests.
C13_ClientConstructedOnce ==
    /\ [](/\ nClient <= 1
          /\ nClient <= nCredential
          /\ store.client # None <=> nClient = 1
          /\ store.client # None => store.container = Some(1)
          /\ store.credential = IF nCredential = 0 THEN None
                                 ELSE Some(nCredential)
          /\ \A r \in Querying : req[r].container = store.container
                                   /\ store.client # None)
    /\ [][/\ store.client # None =>
                 /\ store' = store
                 /\ nCredential' = nCredential
                 /\ nClient' = nClient
          /\ nCredential' # nCredential =>
                 /\ nCredential' = nCredential + 1
                 /\ nClient' = nClient => store'.client = None
         ]_vars

\* C13 witness: two requests arrived before the first use of the store and
\* are both between pages of their queries, on the same container, with one
\* credential and one client constructed.
C13_Witness ==
    /\ nCredential = 1 /\ nClient = 1
    /\ \E r1, r2 \in Req :
          /\ r1 # r2
          /\ req[r1].pc = "iterating" /\ req[r2].pc = "iterating"
          /\ req[r1].container = req[r2].container
          /\ req[r1].container = store.container
          /\ db # {}

\* ------------------------------------------------------------------
\* Properties of the search index client (under SearchSpec)
\* ------------------------------------------------------------------

\* C8 (the claim as stated): after any calls of create_index_if_not_exists
\* at most one create_index request has been issued, and a call that found
\* the name listed was a no-op.
C8_CreateRequestAtMostOnce ==
    /\ ensured.requests <= 1
    /\ ensured.lastListed => ensured.last = "noop"

\* C8 (amended): the client has created the index at most once; a call
\* that finds the target name listed issues no create_index request,
\* changes no index and is a no-op; and a create_index request is issued
\* only by a call made while the index does not exist (so it is issued
\* again only after an earlier request failed).
C8_CreatedAtMostOnce ==
    [][ensured'.calls # ensured.calls =>
          /\ ensured'.created <= 1
          /\ ensured'.lastListed =>
                /\ ensured'.requests = ensured.requests
                /\ ensured'.created = ensured.created
                /\ indexes' = indexes
                /\ ensured'.last = "noop"
          /\ IndexName \in indexes =>
                /\ ensured'.requests = ensured.requests
                /\ indexes' = indexes
                /\ ensured'.last \in {"noop", "raised"}
          /\ ensured'.requests # ensured.requests =>
                /\ IndexName \notin indexes
                /\ ensured'.created = ensured.created => indexes' = indexes
       ]_vars

\* C8 witness: two calls were made, the first created the index with the
\* one request issued, the second was a no-op.
C8_Witness ==
    /\ ensured.calls = 2 /\ ensured.requests = 1 /\ ensured.created = 1
    /\ ensured.last = "noop" /\ IndexName \in indexes

\* the enriched documents one call submitted are its input documents, one
\* for one and in order, each with the embedding of its content
SubmittedAll(call) ==
    \E batch \in call.submitted :
        /\ Len(batch) = Len(call.documents)
        /\ \A i \in 1..Len(batch) :
              /\ batch[i].id = call.documents[i].id
              /\ batch[i].doc_type = call.documents[i].doc_type
              /\ batch[i].load_id = call.documents[i].load_id
              /\ batch[i].content = call.documents[i].content
              /\ batch[i].content_vector = Embedding(call.documents[i].content)

\* the call failed with the count of failed documents exactly when some
\* per-document result is unsuccessful, and succeeded only when every
\* document succeeded
FailsByCount(call) ==
    LET bad == {i \in 1..Len(call.succeeded) : ~call.succeeded[i]}
    IN  /\ (call.outcome = "failed" /\ call.failedCount = Cardinality(bad))
              <=> bad # {}
        /\ call.outcome = "ok" =>
              /\ Len(call.succeeded) = Len(call.documents)
              /\ bad = {}

\* C9 (the claim as stated): a call with no document made no embedding and
\* no upload request; a call with documents submitted one enriched document
\* per input document and failed with the count of failures exactly when
\* some per-document result was unsuccessful.
C9_UploadSubmitsAll ==
    upload.called =>
        /\ upload.documents = <<>> =>
              /\ upload.embedRequests = 0 /\ upload.submitted = None
              /\ upload.outcome = "ok"
        /\ upload.documents # <<>> =>
              /\ SubmittedAll(upload)
              /\ FailsByCount(upload)

\* C9 (amended): a call with no document made no embedding and no upload
\* request; a call with documents made one embedding request and, if that
\* request raised, submitted nothing and raised; otherwise it submitted one
\* enriched document per input document and failed with the count of
\* failures exactly when some per-document result was unsuccessful.
C9_UploadSubmitsAllEmbedded ==
    upload.called =>
        /\ upload.documents = <<>> =>
              /\ upload.embedRequests = 0 /\ upload.submitted = None
              /\ upload.outcome = "ok"
        /\ upload.documents # <<>> =>
              /\ upload.embedRequests = 1
              /\ upload.submitted = None => upload.outcome = "raised"
              /\ upload.submitted # None =>
                    /\ SubmittedAll(upload)
                    /\ FailsByCount(upload)

\* C9 witness: a call with two documents submitted both, the first
\* succeeded and is in the index, the second failed, and the call failed
\* with the count 1.
C9_Witness ==
    /\ upload.called /\ Len(upload.documents) = 2
    /\ upload.succeeded = <<TRUE, FALSE>>
    /\ upload.outcome = "failed" /\ upload.failedCount = 1
    /\ \E d \in indexDocs : d.id = upload.documents[1].id

\* C10 (the claim as stated): a search that returned holds at most top
\* results, each with the score the service gave it; when a (non-empty)
\* load id was provided every result has that load id, and when none was
\* provided no filter was sent.
C10_SearchFilteredByLoad ==
    found.called /\ found.outcome = "returned" =>
        /\ Len(found.results) <= found.top
        /\ Len(found.results) = Len(found.service)
        /\ \A i \in 1..Len(found.results) :
              found.results[i].score = found.service[i].score
        /\ ~Falsy(found.load_id) =>
              \A l \in found.load_id : \A i \in 1..Len(found.results) :
                  found.results[i].load_id = l
        /\ found.load_id = None => found.filter = None

\* ------------------------------------------------------------------
\* Properties of the seeded store (under SeedSpec)
\* ------------------------------------------------------------------

\* the requests of one tool and argument that have returned the list of
\* their store call, after the seeding run has completed
SeededAnswer(tool, arg) ==
    {r \in StoreReturned(tool) : seed.pc = "done" /\ req[r].arg = arg}

\* C12: after the seeding run has completed on an initially empty store,
\* get_load_context("L-7712") returns at least 2 records, the load L-7712
\* and the exception EX-7712 among them; get_load_exceptions("L-7712")
\* returns exactly the one record EX-7712;
\* get_exceptions_by_type("Late Delivery") contains EX-7712 and
\* get_exceptions_by_type("Breakdown") does not.
C12_AnchorSeeded ==
    /\ \A r \in SeededAnswer("get_load_context", L7712) :
          /\ Len(req[r].response) >= 2
          /\ {AnchorLoad, AnchorException} \subseteq Range(req[r].response)
    /\ \A r \in SeededAnswer("get_load_exceptions", L7712) :
          req[r].response = <<AnchorException>>
    /\ \A r \in SeededAnswer("get_exceptions_by_type", LateDelivery) :
          AnchorException \in Range(req[r].response)
    /\ \A r \in SeededAnswer("get_exceptions_by_type", Breakdown) :
          \A c \in Range(req[r].response) : c.id # AnchorException.id

\* C12 witness: on a seeded store that also holds a generated exception of
\* type "Late Delivery" for load L-7000, get_exceptions_by_type("Late
\* Delivery") has returned that exception and EX-7712.
C12_Witness ==
    \E r \in SeededAnswer("get_exceptions_by_type", LateDelivery) :
        /\ Range(req[r].response)
              = {AnchorException, ExceptionOf7000(LateDelivery)}
        /\ AnchorLoad \in db

\* the dispatch records of a load
DispatchOf(items, load) ==
    {d \in items : d.type = "dispatch" /\ d.load_id = load.load_id}

\* C14 (the claim as stated): in the dataset a completed seeding run has
\* written, every load record, the anchor load L-7712 included, has exactly
\* one dispatch record with its load_id, and the load_id of every dispatch
\* record is that of a stored load.
C14_DispatchOneToOne ==
    seed.pc = "done" =>
        /\ \A c \in db :
              c.type = "load" => Cardinality(DispatchOf(db, c)) = 1
        /\ \A d \in db :
              d.type = "dispatch" =>
                  \E c \in db : c.type = "load" /\ c.load_id = d.load_id

====
